---- MODULE Spec2Model ----
(***************************************************************************)
(* Love-OS team dynamics: the gravity model (team_optimizer.py), its       *)
(* greedy intervention optimizer and the stress tests (stress_test.py).    *)
(* Real numbers (numpy float64 in the source) are modelled as exact        *)
(* rationals <<numerator, denominator>> in lowest terms, denominator > 0;  *)
(* rounding of the floating-point operations is not modelled.              *)
(* Arrays are sequences (index 1 is Python's index 0); a 2-D array is a    *)
(* sequence of rows.                                                       *)
(***************************************************************************)
EXTENDS Integers, Sequences, FiniteSets, TLC

\* ------------------------------------------------------------------------
\* Exact rational arithmetic
\* ------------------------------------------------------------------------
Abs(x) == IF x < 0 THEN -x ELSE x

RECURSIVE GCD(_, _)
GCD(a, b) == IF b = 0 THEN a ELSE GCD(b, a % b)

Rat(n, d) ==
    LET s == IF d < 0 THEN -1 ELSE 1
        g == GCD(Abs(n), Abs(d))
    IN  <<(s * n) \div g, (s * d) \div g>>

Zero == <<0, 1>>
One == <<1, 1>>

\* Common factors are divided out before multiplying, to keep the
\* intermediate integers small
RAdd(a, b) ==
    IF a[1] = 0 THEN b
    ELSE IF b[1] = 0 THEN a
    ELSE LET g == GCD(a[2], b[2])
         IN  Rat(a[1] * (b[2] \div g) + b[1] * (a[2] \div g),
                 (a[2] \div g) * b[2])
RNeg(a) == <<-a[1], a[2]>>
RSub(a, b) == RAdd(a, RNeg(b))
RMul(a, b) ==
    IF a[1] = 0 \/ b[1] = 0 THEN Zero
    ELSE LET g1 == GCD(Abs(a[1]), b[2])
             g2 == GCD(Abs(b[1]), a[2])
         IN  Rat((a[1] \div g1) * (b[1] \div g2),
                 (a[2] \div g2) * (b[2] \div g1))
RInv(a) == IF a[1] < 0 THEN <<-a[2], -a[1]>> ELSE <<a[2], a[1]>>
RDiv(a, b) == IF b[1] = 0 THEN Rat(a[1], 0) ELSE RMul(a, RInv(b))
RLt(a, b) ==
    IF a = b THEN FALSE
    ELSE LET g == GCD(a[2], b[2])
         IN  a[1] * (b[2] \div g) < b[1] * (a[2] \div g)
RLe(a, b) == a = b \/ RLt(a, b)
RMax(a, b) == IF RLt(a, b) THEN b ELSE a
RMin(a, b) == IF RLt(b, a) THEN b ELSE a

\* Sum of f[1..k], f a sequence of rationals
RECURSIVE RSum(_, _)
RSum(f, k) == IF k = 0 THEN Zero ELSE RAdd(RSum(f, k - 1), f[k])

\* ------------------------------------------------------------------------
\* team_optimizer.py: the physics engine
\* ------------------------------------------------------------------------
\* Default parameters kappa=0.02, eps=0.1
KAPPA == Rat(1, 50)
EPS == Rat(1, 10)

\* numpy broadcasting of 1-D arrays: every length that is not 1 must agree
MaxLen3(a, b, c) == IF a >= b /\ a >= c THEN a ELSE IF b >= c THEN b ELSE c
Broadcastable(L, V, R) ==
    \A x, y \in {Len(L), Len(V), Len(R)} : x = y \/ x = 1 \/ y = 1
Elem(X, i) == IF Len(X) = 1 THEN X[1] ELSE X[i]

\* G = (L^2 * V) / (R + eps), elementwise
compute_individual_gravity(L, V, R, eps) ==
    [i \in 1..MaxLen3(Len(L), Len(V), Len(R)) |->
        RDiv(RMul(RMul(Elem(L, i), Elem(L, i)), Elem(V, i)),
             RAdd(Elem(R, i), eps))]

\* Shape of a 2-D array
Rows(S) == Len(S)
Cols(S) == IF Len(S) = 0 THEN 0 ELSE Len(S[1])

\* Mutant of KTeam: G[i] * G[i] in place of G[i] * G[j]
KTeamSquared(n, G, S, kappa) ==
    LET row(i) == [j \in 1..n |->
                     IF j > i THEN RMul(RMul(RMul(kappa, G[i]), G[i]), S[i][j])
                     ELSE Zero]
    IN  RSum([i \in 1..n |-> RSum(row(i), n)], n)

\* for i in range(n): for j in range(i+1, n): K_team += kappa*G[i]*G[j]*S[i,j]
KTeam(n, G, S, kappa) ==
    LET row(i) == [j \in 1..n |->
                     IF j > i THEN RMul(RMul(RMul(kappa, G[i]), G[j]), S[i][j])
                     ELSE Zero]
    IN  RSum([i \in 1..n |-> RSum(row(i), n)], n)

\* np.triu(1 - S, 1).sum(): the strict upper triangle of the whole array S
Misalignment(S) ==
    LET row(i) == [j \in 1..Cols(S) |->
                     IF j > i THEN RSub(One, S[i][j]) ELSE Zero]
    IN  RSum([i \in 1..Rows(S) |-> RSum(row(i), Cols(S))], Rows(S))

\* Mutant of DTeam: R.sum() left out of the dispersion
DTeamNoR(R, S) == Misalignment(S)

\* D_team = R.sum() + misalignment
DTeam(R, S) == RAdd(RSum(R, Len(R)), Misalignment(S))

\* The exception analyze_team_state ends in, or "none":
\* ValueError when L, V, R do not broadcast (line 18), IndexError when the
\* loop reads S[i, j] outside S (line 35).
AnalyzeError(L, V, R, S) ==
    IF ~Broadcastable(L, V, R) THEN "ValueError"
    ELSE IF Len(L) >= 2 /\ (Rows(S) < Len(L) - 1 \/ Cols(S) < Len(L))
         THEN "IndexError"
    ELSE "none"

analyze_team_state(L, V, R, S, kappa, eps) ==
    IF AnalyzeError(L, V, R, S) # "none"
    THEN [err |-> AnalyzeError(L, V, R, S)]
    ELSE LET n == Len(L)
             G == compute_individual_gravity(L, V, R, eps)
             K == KTeam(n, G, S, kappa)
             D == DTeam(R, S)
         IN  [err |-> "none", G |-> G, K_team |-> K, D_team |-> D,
              Margin |-> RSub(K, D), Is_Stable |-> RLt(D, K)]

\* ------------------------------------------------------------------------
\* team_optimizer.py: sensitivity analysis
\* ------------------------------------------------------------------------
\* interaction_sum[i] = sum(kappa * S[i, j] * G[j] for j in range(n) if i != j)
InteractionSum(n, G, S, kappa) ==
    [i \in 1..n |->
        RSum([j \in 1..n |->
                IF i # j THEN RMul(RMul(kappa, S[i][j]), G[j]) ELSE Zero], n)]

\* dG_dR = -(L**2 * V) / (R + eps)**2
DGDR(L, V, R, eps) ==
    [i \in 1..Len(L) |->
        RNeg(RDiv(RMul(RMul(L[i], L[i]), V[i]),
                  RMul(RAdd(R[i], eps), RAdd(R[i], eps))))]

\* dM_dR = (interaction_sum * dG_dR) - 1.0
DMDR(L, V, R, S, kappa, eps) ==
    LET n == Len(L)
        G == compute_individual_gravity(L, V, R, eps)
        isum == InteractionSum(n, G, S, kappa)
        dG == DGDR(L, V, R, eps)
    IN  [i \in 1..n |-> RSub(RMul(isum[i], dG[i]), One)]

\* Mutant of DMDSVal: the + 1.0 of the misalignment term left out
DMDSValNoOne(G, i, j, kappa) == RMul(RMul(kappa, G[i]), G[j])

\* val = kappa * G[i] * G[j] + 1.0, written to dM_dS[i, j] and dM_dS[j, i]
DMDSVal(G, i, j, kappa) == RAdd(RMul(RMul(kappa, G[i]), G[j]), One)

\* dM_dS = np.zeros_like(S); both triangles filled, the diagonal left 0
DMDS(L, V, R, S, kappa, eps) ==
    LET n == Len(L)
        G == compute_individual_gravity(L, V, R, eps)
    IN  [a \in 1..Rows(S) |-> [b \in 1..Cols(S) |->
            IF a # b /\ a <= n /\ b <= n
            THEN DMDSVal(G, IF a < b THEN a ELSE b, IF a < b THEN b ELSE a, kappa)
            ELSE Zero]]

calculate_marginal_gains(L, V, R, S, kappa, eps) ==
    [dM_dR |-> DMDR(L, V, R, S, kappa, eps),
     dM_dS |-> DMDS(L, V, R, S, kappa, eps)]

\* ------------------------------------------------------------------------
\* team_optimizer.py: the greedy optimizer
\* ------------------------------------------------------------------------
\* Mutant of CostOK: the guard only avoids the division by zero
CostNonZero(cost) == cost # Zero

\* if cost > 0: the guard before roi = gain / cost
CostOK(cost) == RLt(Zero, cost)

\* One candidate move (Target_2 = 0 stands for None)
Move(type, i, j, gain, cost) ==
    [Type |-> type, Target |-> i, Target_2 |-> j,
     ROI |-> RDiv(gain, cost), Cost |-> cost, Impact |-> gain]

\* Loop A: R-reduction candidates of nodes 1..k, in enumeration order
RECURSIVE RCandidates(_, _, _, _)
RCandidates(dM_dR, cR, step, k) ==
    IF k = 0 THEN <<>>
    ELSE LET gain == RMul(RNeg(dM_dR[k]), step)
             cost == RMul(cR[k], step)
             rest == RCandidates(dM_dR, cR, step, k - 1)
         IN  IF CostOK(cost)
             THEN Append(rest, Move("Reduce Resistance (R)", k, 0, gain, cost))
             ELSE rest

\* The pairs (i, j), i < j <= n, in the order of the nested loops
RECURSIVE PairSeq(_, _, _)
PairSeq(n, i, j) ==
    IF i >= n THEN <<>>
    ELSE IF j > n THEN PairSeq(n, i + 1, i + 2)
    ELSE <<(<<i, j>>)>> \o PairSeq(n, i, j + 1)

\* Loop B: S-boost candidates of the first k pairs
RECURSIVE SCandidates(_, _, _, _, _)
SCandidates(dM_dS, cS, step, pairs, k) ==
    IF k = 0 THEN <<>>
    ELSE LET i == pairs[k][1]
             j == pairs[k][2]
             gain == RMul(dM_dS[i][j], step)
             cost == RMul(cS[i][j], step)
             rest == SCandidates(dM_dS, cS, step, pairs, k - 1)
         IN  IF CostOK(cost)
             THEN Append(rest, Move("Boost Resonance (S)", i, j, gain, cost))
             ELSE rest

\* suggestions.sort(key=ROI, reverse=True): a stable sort, equal keys keep
\* their enumeration order
RECURSIVE InsertByROI(_, _)
InsertByROI(sorted, m) ==
    IF sorted = <<>> THEN <<m>>
    ELSE IF RLt(Head(sorted).ROI, m.ROI) THEN <<m>> \o sorted
    ELSE <<Head(sorted)>> \o InsertByROI(Tail(sorted), m)

RECURSIVE SortByROI(_, _)
SortByROI(seq, k) ==
    IF k = 0 THEN <<>> ELSE InsertByROI(SortByROI(seq, k - 1), seq[k])

RECURSIVE Reversed(_)
Reversed(seq) ==
    IF seq = <<>> THEN <<>> ELSE Append(Reversed(Tail(seq)), Head(seq))

\* Mutant of SortedSuggestions: reverse=True left out
SortedAscending(all) == Reversed(SortByROI(all, Len(all)))

\* suggestions.sort(key=lambda x: x['ROI'], reverse=True)
SortedSuggestions(all) == SortByROI(all, Len(all))

\* Lines 88-125: the ranked candidate list
Ranked(L, V, R, S, costs, step, kappa, eps) ==
    LET g == calculate_marginal_gains(L, V, R, S, kappa, eps)
        n == Len(L)
        pairs == PairSeq(n, 1, 2)
        all == RCandidates(g.dM_dR, costs.cR, step, n)
               \o SCandidates(g.dM_dS, costs.cS, step, pairs, Len(pairs))
    IN  SortedSuggestions(all)

\* Mutant of Fits: the move's cost left out of the test
FitsBeforeAdding(spend, cost, budget) == RLe(spend, budget)

\* if current_spend + move['Cost'] <= budget
Fits(spend, cost, budget) == RLe(RAdd(spend, cost), budget)

\* Mutant of NextPos: break at the first move that does not fit
NextPosBreak(k, fitted, len) == IF fitted THEN k + 1 ELSE len + 1

\* The for loop goes on to the next move whether or not this one fitted
NextPos(k, fitted, len) == k + 1

\* One iteration of the budget loop on the walk state w
WalkStep(w, budget) ==
    LET move == w.suggestions[w.k]
        fitted == Fits(w.current_spend, move.Cost, budget)
    IN  [suggestions |-> w.suggestions,
         k |-> NextPos(w.k, fitted, Len(w.suggestions)),
         valid_moves |-> IF fitted THEN Append(w.valid_moves, move)
                         ELSE w.valid_moves,
         current_spend |-> IF fitted THEN RAdd(w.current_spend, move.Cost)
                           ELSE w.current_spend]

WalkStart(sugs) ==
    [suggestions |-> sugs, k |-> 1, valid_moves |-> <<>>, current_spend |-> Zero]

RECURSIVE WalkAll(_, _)
WalkAll(w, budget) ==
    IF w.k > Len(w.suggestions) THEN w ELSE WalkAll(WalkStep(w, budget), budget)

suggest_interventions(L, V, R, S, costs, budget, step, kappa, eps) ==
    WalkAll(WalkStart(Ranked(L, V, R, S, costs, step, kappa, eps)), budget).valid_moves

\* roi = gain / cost raises ZeroDivisionError on a Python float cost of 0;
\* it is reached only by a candidate that passed the guard
DivisionByZero(costs, step, n) ==
    \/ \E i \in 1..n :
          LET cost == RMul(costs.cR[i], step) IN CostOK(cost) /\ cost = Zero
    \/ \E i, j \in 1..n :
          LET cost == RMul(costs.cS[i][j], step)
          IN  i < j /\ CostOK(cost) /\ cost = Zero

\* ------------------------------------------------------------------------
\* Bounds and input sets
\* ------------------------------------------------------------------------
MaxNodes == 2
MaxBudget == 4

Pairs(n) == {p \in (1..n) \X (1..n) : p[1] < p[2]}
Lo(i, j) == IF i < j THEN i ELSE j
Hi(i, j) == IF i < j THEN j ELSE i

\* n x n arrays whose two triangles carry the same value of Vals, diagonal d
SymMats(n, Vals, d) ==
    {[i \in 1..n |-> [j \in 1..n |->
        IF i = j THEN d ELSE u[<<Lo(i, j), Hi(i, j)>>]]] : u \in [Pairs(n) -> Vals]}

\* Cost per unit change: negative, zero and two positive prices
CostVals == {Rat(-1, 1), Zero, One, Rat(2, 1)}
\* Teams of the optimizer runs: one without gravity (every gain is 1 * step)
\* and one with L = 1, 2, .. (the R gains exceed the S gains)
OptTeams(n) ==
    {[L |-> [i \in 1..n |-> Zero], V |-> [i \in 1..n |-> One],
      R |-> [i \in 1..n |-> Zero]],
     [L |-> [i \in 1..n |-> Rat(i, 1)], V |-> [i \in 1..n |-> One],
      R |-> [i \in 1..n |-> Zero]]}
StepVals == {Rat(1, 10)}
BudgetVals == {Rat(b, 10) : b \in -1..MaxBudget}

OptInputs ==
    UNION {[team : OptTeams(n),
            S : SymMats(n, {Rat(1, 2)}, Zero),
            costs : [cR : [1..n -> CostVals], cS : SymMats(n, CostVals, Zero)],
            budget : BudgetVals, step : StepVals] : n \in 1..MaxNodes}

\* ------------------------------------------------------------------------
\* State
\* ------------------------------------------------------------------------
VARIABLES
    pc,             \* position of the running call
    inp,            \* the arguments of the call
    suggestions,    \* suggest_interventions: the ranked candidates
    k,              \* suggest_interventions: position of the budget loop
    valid_moves,    \* suggest_interventions: the accepted moves
    current_spend,  \* suggest_interventions: cost accepted so far
    out             \* results of the evaluator / stress test calls

vars == <<pc, inp, suggestions, k, valid_moves, current_spend, out>>

NoOut == [kind |-> "none"]

\* ------------------------------------------------------------------------
\* Spec: one call of suggest_interventions
\* ------------------------------------------------------------------------
Init ==
    /\ pc = "start"
    /\ \E a \in OptInputs :
          inp = [L |-> a.team.L, V |-> a.team.V, R |-> a.team.R, S |-> a.S,
                 costs |-> a.costs, budget |-> a.budget, step |-> a.step]
    /\ suggestions = <<>>
    /\ k = 1
    /\ valid_moves = <<>>
    /\ current_spend = Zero
    /\ out = NoOut

\* Lines 88-129: gains, candidate loops A and B, the sort, the loop set-up
Rank ==
    /\ pc = "start"
    /\ IF DivisionByZero(inp.costs, inp.step, Len(inp.L))
       THEN /\ pc' = "error"
            /\ UNCHANGED suggestions
       ELSE /\ pc' = "walk"
            /\ suggestions' = Ranked(inp.L, inp.V, inp.R, inp.S, inp.costs,
                                     inp.step, KAPPA, EPS)
    /\ k' = 1
    /\ valid_moves' = <<>>
    /\ current_spend' = Zero
    /\ UNCHANGED <<inp, out>>

\* Lines 130-133: one iteration of the budget loop
Walk ==
    /\ pc = "walk"
    /\ k <= Len(suggestions)
    /\ LET w == WalkStep([suggestions |-> suggestions, k |-> k,
                          valid_moves |-> valid_moves,
                          current_spend |-> current_spend], inp.budget)
       IN  /\ k' = w.k
           /\ valid_moves' = w.valid_moves
           /\ current_spend' = w.current_spend
    /\ UNCHANGED <<pc, inp, suggestions, out>>

\* Line 135: return valid_moves
Return ==
    /\ pc = "walk"
    /\ k > Len(suggestions)
    /\ pc' = "done"
    /\ UNCHANGED <<inp, suggestions, k, valid_moves, current_spend, out>>

Next == Rank \/ Walk \/ Return

Spec == Init /\ [][Next]_vars

\* ------------------------------------------------------------------------
\* Properties of suggest_interventions
\* ------------------------------------------------------------------------
CostSum(moves) == RSum([i \in 1..Len(moves) |-> moves[i].Cost], Len(moves))
Accepted(q) == \E i \in 1..Len(valid_moves) : valid_moves[i] = suggestions[q]
\* Cost of the accepted moves ranked before position q
SpendBefore(q) ==
    RSum([p \in 1..(q - 1) |-> IF Accepted(p) THEN suggestions[p].Cost ELSE Zero],
         q - 1)

\* C1: with a budget >= 0 the costs of the accepted moves sum to at most
\* the budget, and current_spend <= budget, after every step of the walk.
BudgetRespected ==
    RLe(Zero, inp.budget) =>
        /\ RLe(CostSum(valid_moves), inp.budget)
        /\ RLe(current_spend, inp.budget)

\* The walk ended having accepted several moves, rejected others, and spent
\* the budget exactly.
BudgetRespectedWitness ==
    /\ pc = "done"
    /\ Len(valid_moves) >= 2
    /\ Len(valid_moves) < Len(suggestions)
    /\ CostSum(valid_moves) = inp.budget

\* C2: consecutive accepted moves are in non-increasing ROI order.
AcceptedByROI ==
    \A i \in 1..(Len(valid_moves) - 1) :
        RLe(valid_moves[i + 1].ROI, valid_moves[i].ROI)

\* Two accepted moves of different ROI with a rejected candidate ranked
\* between them.
AcceptedByROIWitness ==
    /\ pc = "done"
    /\ \E a, b, c \in 1..Len(suggestions) :
          /\ a < b /\ b < c
          /\ Accepted(a) /\ ~Accepted(b) /\ Accepted(c)
          /\ RLt(suggestions[c].ROI, suggestions[a].ROI)

\* C3: every candidate the walk has visited is accepted exactly when its
\* cost fitted the budget left at its turn; the accepted list is the ranked
\* list restricted to those, in order; the walk visits every candidate.
SkipNotStop ==
    pc \in {"walk", "done"} =>
        /\ \A q \in 1..Len(suggestions) :
              IF q < k
              THEN Accepted(q) <=>
                     RLe(RAdd(SpendBefore(q), suggestions[q].Cost), inp.budget)
              ELSE ~Accepted(q)
        /\ valid_moves = SelectSeq(suggestions,
                                   LAMBDA m : \E i \in 1..Len(valid_moves) :
                                                  valid_moves[i] = m)
        /\ \A q \in 1..Len(suggestions) : RLt(Zero, suggestions[q].Cost)
        /\ pc = "done" => k = Len(suggestions) + 1

\* A candidate ranked after a rejected one was accepted.
SkipNotStopWitness ==
    /\ pc = "done"
    /\ \E b, c \in 1..Len(suggestions) : b < c /\ ~Accepted(b) /\ Accepted(c)

\* The costs with every non-positive candidate cost replaced by v * step
ReplaceNonPositive(costs, step, v) ==
    LET f(c) == IF RLt(Zero, RMul(c, step)) THEN c ELSE v
    IN  [cR |-> [i \in DOMAIN costs.cR |-> f(costs.cR[i])],
         cS |-> [i \in DOMAIN costs.cS |->
                    [j \in DOMAIN costs.cS[i] |-> f(costs.cS[i][j])]]]

PositiveCostCount(costs, step, n) ==
    Cardinality({i \in 1..n : RLt(Zero, RMul(costs.cR[i], step))})
    + Cardinality({p \in Pairs(n) : RLt(Zero, RMul(costs.cS[p[1]][p[2]], step))})

\* C4: a candidate whose cost is zero or negative is not ranked and not
\* returned, the call raises no error, and the returned list is the one the
\* call returns when those candidates cost exactly 0, or -1 per unit.
NonPositiveCostExcluded ==
    /\ pc # "error"
    /\ \A q \in 1..Len(suggestions) : RLt(Zero, suggestions[q].Cost)
    /\ \A q \in 1..Len(valid_moves) : RLt(Zero, valid_moves[q].Cost)
    /\ pc \in {"walk", "done"} =>
          Len(suggestions) = PositiveCostCount(inp.costs, inp.step, Len(inp.L))
    /\ pc = "done" =>
          \A v \in {Zero, Rat(-1, 1)} :
              valid_moves =
                suggest_interventions(inp.L, inp.V, inp.R, inp.S,
                    ReplaceNonPositive(inp.costs, inp.step, v),
                    inp.budget, inp.step, KAPPA, EPS)

\* The call returned moves although one candidate cost 0 and another less.
NonPositiveCostExcludedWitness ==
    /\ pc = "done"
    /\ valid_moves # <<>>
    /\ \E i \in 1..Len(inp.L) : RMul(inp.costs.cR[i], inp.step) = Zero
    /\ \E p \in Pairs(Len(inp.L)) :
          RLt(RMul(inp.costs.cS[p[1]][p[2]], inp.step), Zero)

\* ------------------------------------------------------------------------
\* SpecEval: calls of analyze_team_state and calculate_marginal_gains on a
\* snapshot and on the snapshot with one input changed
\* ------------------------------------------------------------------------
Half == Rat(1, 2)

\* n x n arrays as the fixture builds them: np.ones((n, n)) * 0.5, then the
\* upper triangle set; the lower triangle either mirrors it or keeps 0.5
EvalMats(n, Vals) ==
    SymMats(n, Vals, Half)
    \cup {[i \in 1..n |-> [j \in 1..n |->
              IF i < j THEN u[<<i, j>>] ELSE Half]] : u \in [Pairs(n) -> Vals]}

IsSymmetric(S) ==
    \A i \in 1..Rows(S) : \A j \in 1..Cols(S) : S[i][j] = S[j][i]

EvalL == {Zero, One}
EvalR == {Zero, Rat(2, 5)}
EvalS == {Zero, Half, One}
KappaVals == {KAPPA, Zero}
EpsVals == {EPS, One}
SDeltas == {Rat(1, 10), Rat(-1, 2)}
RDeltas == {Rat(1, 10), Rat(3, 5)}

EvalInputs ==
    UNION {[L : [1..n -> EvalL], V : [1..n -> {One}], R : [1..n -> EvalR],
            S : EvalMats(n, EvalS), kappa : KappaVals, eps : EpsVals]
           : n \in 1..MaxNodes}

Perms(n) == {p \in [1..n -> 1..n] : \A a, b \in 1..n : p[a] = p[b] => a = b}

\* X[p]
Permuted(X, p) == [i \in 1..Len(X) |-> X[p[i]]]
\* S[p][:, p]
PermutedMat(S, p) == [i \in 1..Rows(S) |-> [j \in 1..Cols(S) |-> S[p[i]][p[j]]]]

InitEval ==
    /\ pc = "start"
    /\ inp \in EvalInputs
    /\ suggestions = <<>>
    /\ k = 1
    /\ valid_moves = <<>>
    /\ current_spend = Zero
    /\ out = NoOut

\* The base calls: metrics and sensitivities of the snapshot
Baseline ==
    /\ pc = "start"
    /\ pc' = "base"
    /\ out' = [kind |-> "base",
               base |-> analyze_team_state(inp.L, inp.V, inp.R, inp.S,
                                           inp.kappa, inp.eps),
               gains |-> calculate_marginal_gains(inp.L, inp.V, inp.R, inp.S,
                                                  inp.kappa, inp.eps)]
    /\ UNCHANGED <<inp, suggestions, k, valid_moves, current_spend>>

\* analyze_team_state with S[i, j] raised by delta, i < j
BoostS ==
    /\ pc = "base"
    /\ \E p \in Pairs(Len(inp.L)) : \E delta \in SDeltas :
          out' = [kind |-> "boostS", i |-> p[1], j |-> p[2], delta |-> delta,
                  base |-> out.base, gains |-> out.gains,
                  after |-> analyze_team_state(inp.L, inp.V, inp.R,
                              [inp.S EXCEPT ![p[1]][p[2]] = RAdd(@, delta)],
                              inp.kappa, inp.eps)]
    /\ pc' = "probed"
    /\ UNCHANGED <<inp, suggestions, k, valid_moves, current_spend>>

\* analyze_team_state with R[i] raised by delta > 0
RaiseR ==
    /\ pc = "base"
    /\ \E i \in 1..Len(inp.L) : \E delta \in RDeltas :
          out' = [kind |-> "raiseR", i |-> i, delta |-> delta,
                  base |-> out.base, gains |-> out.gains,
                  after |-> analyze_team_state(inp.L, inp.V,
                              [inp.R EXCEPT ![i] = RAdd(@, delta)], inp.S,
                              inp.kappa, inp.eps)]
    /\ pc' = "probed"
    /\ UNCHANGED <<inp, suggestions, k, valid_moves, current_spend>>

\* analyze_team_state on the snapshot with its nodes relabeled by p
Relabel ==
    /\ pc = "base"
    /\ \E p \in Perms(Len(inp.L)) :
          out' = [kind |-> "relabel", p |-> p,
                  base |-> out.base, gains |-> out.gains,
                  after |-> analyze_team_state(Permuted(inp.L, p),
                              Permuted(inp.V, p), Permuted(inp.R, p),
                              PermutedMat(inp.S, p), inp.kappa, inp.eps)]
    /\ pc' = "probed"
    /\ UNCHANGED <<inp, suggestions, k, valid_moves, current_spend>>

NextEval == Baseline \/ BoostS \/ RaiseR \/ Relabel

SpecEval == InitEval /\ [][NextEval]_vars

\* C6: raising S[i][j], i < j, by delta changes the Margin by exactly
\* delta * dM_dS[i][j], dM_dS[i][j] is kappa*G[i]*G[j] + 1, and dM_dS is
\* symmetric.
SGradientExact ==
    /\ out.kind = "boostS" =>
          /\ RSub(out.after.Margin, out.base.Margin)
               = RMul(out.delta, out.gains.dM_dS[out.i][out.j])
          /\ out.gains.dM_dS[out.i][out.j]
               = RAdd(RMul(RMul(inp.kappa, out.base.G[out.i]), out.base.G[out.j]),
                      One)
    /\ out.kind # "none" => IsSymmetric(out.gains.dM_dS)

\* S[i][j] was raised between two nodes of positive gravity, kappa > 0.
SGradientExactWitness ==
    /\ out.kind = "boostS"
    /\ RLt(Zero, inp.kappa)
    /\ RLt(Zero, out.base.G[out.i]) /\ RLt(Zero, out.base.G[out.j])
    /\ out.after.Margin # out.base.Margin

SameMetrics(a, b) ==
    a.K_team = b.K_team /\ a.D_team = b.D_team /\ a.Margin = b.Margin

\* C7 as stated: relabeling the nodes of any snapshot the evaluator accepts,
\* S symmetric or not, leaves K_team, D_team and Margin unchanged.
RelabelInvariantAnyS ==
    out.kind = "relabel" => SameMetrics(out.after, out.base)

\* C7 amended: relabeling the nodes of a snapshot whose S is symmetric
\* leaves K_team, D_team and Margin unchanged.
RelabelInvariantSymmetricS ==
    (out.kind = "relabel" /\ IsSymmetric(inp.S)) =>
        SameMetrics(out.after, out.base)

\* A symmetric snapshot with binding energy was relabeled by a permutation
\* that moves a node.
RelabelInvariantWitness ==
    /\ out.kind = "relabel"
    /\ IsSymmetric(inp.S)
    /\ \E a \in DOMAIN out.p : out.p[a] # a
    /\ RLt(Zero, out.base.K_team)
    /\ inp.R[1] # inp.R[Len(inp.R)]

\* C10: with L, V, R >= 0, S in [0,1], kappa >= 0, eps > 0, raising R[i]
\* alone strictly lowers the Margin, and every dM_dR[i] is <= -1.
NonNegativeInputs ==
    /\ \A i \in 1..Len(inp.L) :
          RLe(Zero, inp.L[i]) /\ RLe(Zero, inp.V[i]) /\ RLe(Zero, inp.R[i])
    /\ \A i \in 1..Rows(inp.S) : \A j \in 1..Cols(inp.S) :
          RLe(Zero, inp.S[i][j]) /\ RLe(inp.S[i][j], One)
    /\ RLe(Zero, inp.kappa) /\ RLt(Zero, inp.eps)

MarginDecreasesInR ==
    NonNegativeInputs =>
        /\ out.kind = "raiseR" => RLt(out.after.Margin, out.base.Margin)
        /\ out.kind # "none" =>
              \A i \in 1..Len(inp.L) : RLe(out.gains.dM_dR[i], Rat(-1, 1))

\* R was raised on a node whose gravity binds it to another node, so that
\* K_team fell as well as D_team rose.
MarginDecreasesInRWitness ==
    /\ out.kind = "raiseR"
    /\ NonNegativeInputs
    /\ RLt(out.after.K_team, out.base.K_team)
    /\ RLt(out.gains.dM_dR[out.i], Rat(-1, 1))

\* ------------------------------------------------------------------------
\* SpecShape: one call of analyze_team_state on arrays of any shapes
\* ------------------------------------------------------------------------
MaxDim == 3

ShapeInputs ==
    {[L |-> [i \in 1..a |-> One], V |-> [i \in 1..b |-> One],
      R |-> [i \in 1..c |-> Rat(2, 5)],
      S |-> [i \in 1..r |-> [j \in 1..q |-> Half]],
      kappa |-> KAPPA, eps |-> EPS] :
        a \in 1..MaxDim, b \in 1..MaxDim, c \in 1..MaxDim,
        r \in 1..MaxDim, q \in 1..MaxDim}

InitShape ==
    /\ pc = "start"
    /\ inp \in ShapeInputs
    /\ suggestions = <<>>
    /\ k = 1
    /\ valid_moves = <<>>
    /\ current_spend = Zero
    /\ out = NoOut

\* The call returns its metrics or ends in the exception out.res.err names
AnalyzeCall ==
    /\ pc = "start"
    /\ pc' = "called"
    /\ out' = [kind |-> "analyze",
               res |-> analyze_team_state(inp.L, inp.V, inp.R, inp.S,
                                          inp.kappa, inp.eps)]
    /\ UNCHANGED <<inp, suggestions, k, valid_moves, current_spend>>

NextShape == AnalyzeCall

SpecShape == InitShape /\ [][NextShape]_vars

ShapesAgree ==
    /\ Len(inp.V) = Len(inp.L) /\ Len(inp.R) = Len(inp.L)
    /\ Rows(inp.S) = Len(inp.L) /\ Cols(inp.S) = Len(inp.L)

\* C5: a call whose inputs disagree on the node count ends in an error and
\* returns no metrics.
ShapeMismatchFails ==
    (pc = "called" /\ ~ShapesAgree) => out.res.err # "none"

\* ------------------------------------------------------------------------
\* stress_test.py: run_monte_carlo_simulation
\* ------------------------------------------------------------------------
\* np.maximum(0, X + noise), elementwise
ClampedNoise(X, noise) == [i \in 1..Len(X) |-> RMax(Zero, RAdd(X[i], noise[i]))]

\* np.clip(S + noise, 0, 1)
ClippedNoise(S, noise) ==
    [i \in 1..Rows(S) |-> [j \in 1..Cols(S) |->
        RMin(One, RMax(Zero, RAdd(S[i][j], noise[i][j])))]]

\* Mutant of Symmetrized: the division by 2 left out
SymmetrizedNoHalf(S) ==
    [i \in 1..Rows(S) |-> [j \in 1..Cols(S) |-> RAdd(S[i][j], S[j][i])]]

\* (S + S.T) / 2
Symmetrized(S) ==
    [i \in 1..Rows(S) |-> [j \in 1..Cols(S) |->
        RMul(RAdd(S[i][j], S[j][i]), Half)]]

\* Lines 23-34: the margin and stability of one trial with the noise drawn
Trial(L, V, R, S, noise) ==
    analyze_team_state(ClampedNoise(L, noise.L), ClampedNoise(V, noise.V),
                       ClampedNoise(R, noise.R),
                       Symmetrized(ClippedNoise(S, noise.S)), KAPPA, EPS)

RECURSIVE InsertAsc(_, _)
InsertAsc(sorted, x) ==
    IF sorted = <<>> THEN <<x>>
    ELSE IF RLt(x, Head(sorted)) THEN <<x>> \o sorted
    ELSE <<Head(sorted)>> \o InsertAsc(Tail(sorted), x)

RECURSIVE SortedAsc(_, _)
SortedAsc(seq, n) == IF n = 0 THEN <<>> ELSE InsertAsc(SortedAsc(seq, n - 1), seq[n])

\* np.mean, np.min
Mean(xs) == RDiv(RSum(xs, Len(xs)), Rat(Len(xs), 1))
Min(xs) == SortedAsc(xs, Len(xs))[1]

\* np.percentile(xs, q): linear interpolation between the order statistics
\* around position q/100 * (N - 1)
Percentile(xs, q) ==
    LET N == Len(xs)
        srt == SortedAsc(xs, N)
        lo == (q * (N - 1)) \div 100
        frac == Rat(q * (N - 1) - 100 * lo, 100)
    IN  IF lo + 1 >= N THEN srt[N]
        ELSE RAdd(srt[lo + 1], RMul(frac, RSub(srt[lo + 2], srt[lo + 1])))

\* Lines 39-44: the report of the simulation
MonteCarloReport(margins, unstable_count, iterations) ==
    [Mean_Margin |-> Mean(margins),
     Min_Margin |-> Min(margins),
     Unstable_Probability |-> Rat(unstable_count, iterations),
     P5 |-> Percentile(margins, 5)]

\* ------------------------------------------------------------------------
\* SpecMC: one call of run_monte_carlo_simulation
\* ------------------------------------------------------------------------
MaxIter == 2

ZeroVec(n) == [i \in 1..n |-> Zero]
ZeroMat(n) == [i \in 1..n |-> [j \in 1..n |-> Zero]]

\* The draws of np.random.normal: with standard deviation 0 every sample is
\* 0; otherwise a sample is any real, of which these are drawn: no noise,
\* one sigma on L or on R everywhere, one sigma on a single entry of S
NoiseDraws(n, noise_scale) ==
    LET none == [L |-> ZeroVec(n), V |-> ZeroVec(n), R |-> ZeroVec(n),
                 S |-> ZeroMat(n)]
        sLV == RMul(noise_scale, Rat(2, 1))
        sRS == RMul(noise_scale, Half)
    IN  IF noise_scale = Zero THEN {none}
        ELSE {none,
              [none EXCEPT !.L = [i \in 1..n |-> sLV]],
              [none EXCEPT !.V = [i \in 1..n |-> RNeg(sLV)]],
              [none EXCEPT !.R = [i \in 1..n |-> sRS]]}
             \cup {[none EXCEPT !.S[p[1]][p[2]] = sRS] : p \in Pairs(n)}
             \cup {[none EXCEPT !.S[p[2]][p[1]] = RNeg(sRS)] : p \in Pairs(n)}

MCL == {One, Rat(-1, 1)}
MCS == {Half, One, Rat(3, 2)}

MCInputs ==
    UNION {[L : {[i \in 1..n |-> l] : l \in MCL}, V : {[i \in 1..n |-> One]},
            R : {[i \in 1..n |-> Rat(2, 5)]}, S : EvalMats(n, MCS),
            iterations : 1..MaxIter, noise_scale : {Zero, Rat(1, 5)}]
           : n \in 1..MaxNodes}

InitMC ==
    /\ pc = "start"
    /\ inp \in MCInputs
    /\ suggestions = <<>>
    /\ k = 1
    /\ valid_moves = <<>>
    /\ current_spend = Zero
    /\ out = [kind |-> "mc", margins |-> <<>>, unstable_count |-> 0]

\* Lines 21-37: one iteration of the loop
MCTrial ==
    /\ pc = "start"
    /\ Len(out.margins) < inp.iterations
    /\ \E noise \in NoiseDraws(Len(inp.L), inp.noise_scale) :
          LET metrics == Trial(inp.L, inp.V, inp.R, inp.S, noise)
          IN  out' = [out EXCEPT
                        !.margins = Append(@, metrics.Margin),
                        !.unstable_count =
                            IF ~metrics.Is_Stable THEN @ + 1 ELSE @]
    /\ UNCHANGED <<pc, inp, suggestions, k, valid_moves, current_spend>>

\* Lines 39-44: the loop is over, the report is returned
MCReturn ==
    /\ pc = "start"
    /\ Len(out.margins) = inp.iterations
    /\ pc' = "done"
    /\ out' = [kind |-> "mcdone", margins |-> out.margins,
               unstable_count |-> out.unstable_count,
               report |-> MonteCarloReport(out.margins, out.unstable_count,
                                           inp.iterations)]
    /\ UNCHANGED <<inp, suggestions, k, valid_moves, current_spend>>

NextMC == MCTrial \/ MCReturn

SpecMC == InitMC /\ [][NextMC]_vars

BaseMargin == analyze_team_state(inp.L, inp.V, inp.R, inp.S, KAPPA, EPS).Margin

AllTrialsAtBase ==
    /\ \A i \in 1..Len(out.margins) : out.margins[i] = BaseMargin
    /\ pc = "done" =>
          /\ out.report.Mean_Margin = BaseMargin
          /\ out.report.Min_Margin = BaseMargin
          /\ out.report.P5 = BaseMargin

\* C8 as stated: with noise_scale = 0 every recorded margin, and so the
\* mean, the minimum and the 5th percentile, is the Margin of the base
\* snapshot, whatever base is passed in.
ZeroNoiseIsBaseAnyInput ==
    inp.noise_scale = Zero => AllTrialsAtBase

\* The base snapshots the perturbation leaves alone at noise 0: L, V, R
\* not negative, S symmetric with entries in [0, 1]
ValidBase ==
    /\ \A i \in 1..Len(inp.L) :
          RLe(Zero, inp.L[i]) /\ RLe(Zero, inp.V[i]) /\ RLe(Zero, inp.R[i])
    /\ IsSymmetric(inp.S)
    /\ \A i \in 1..Rows(inp.S) : \A j \in 1..Cols(inp.S) :
          RLe(Zero, inp.S[i][j]) /\ RLe(inp.S[i][j], One)

\* C8 amended: with noise_scale = 0 and a base whose L, V, R are >= 0 and
\* whose S is symmetric with entries in [0, 1], every recorded margin, the
\* mean, the minimum and the 5th percentile equal the base Margin.
ZeroNoiseIsBaseValidInput ==
    (inp.noise_scale = Zero /\ ValidBase) => AllTrialsAtBase

\* A simulation of several trials without noise returned its report for a
\* valid base of more than one node.
ZeroNoiseIsBaseWitness ==
    /\ pc = "done"
    /\ inp.noise_scale = Zero
    /\ ValidBase
    /\ Len(inp.L) >= 2
    /\ Len(out.margins) >= 2

\* ------------------------------------------------------------------------
\* stress_test.py: run_worst_case_scenarios
\* ------------------------------------------------------------------------
\* np.argmax(G): the first index of the maximum
ArgMax(G) ==
    CHOOSE t \in 1..Len(G) :
        /\ \A j \in 1..Len(G) : RLe(G[j], G[t])
        /\ \A j \in 1..(t - 1) : RLt(G[j], G[t])

\* Lines 59-66: the loop over the pairs from position m on, max_k and
\* strongest_edge being the strongest so far; a pair replaces it only when
\* its k is strictly greater
RECURSIVE StrongestEdgeFrom(_, _, _, _, _, _, _)
StrongestEdgeFrom(pairs, m, max_k, strongest_edge, G, S, kappa) ==
    IF m > Len(pairs) THEN strongest_edge
    ELSE IF RLt(max_k, RMul(RMul(RMul(kappa, G[pairs[m][1]]), G[pairs[m][2]]),
                            S[pairs[m][1]][pairs[m][2]]))
    THEN StrongestEdgeFrom(pairs, m + 1,
             RMul(RMul(RMul(kappa, G[pairs[m][1]]), G[pairs[m][2]]),
                  S[pairs[m][1]][pairs[m][2]]),
             pairs[m], G, S, kappa)
    ELSE StrongestEdgeFrom(pairs, m + 1, max_k, strongest_edge, G, S, kappa)

\* max_k = -1, strongest_edge = (0, 1) before the loop
StrongestEdge(n, G, S, kappa) ==
    StrongestEdgeFrom(PairSeq(n, 1, 2), 1, Rat(-1, 1), <<1, 2>>, G, S, kappa)

\* Mutant of SBroken: only the upper entry of the strongest edge is scaled
SBrokenOneSided(S, u, v) ==
    [S EXCEPT ![u][v] = RMul(@, Rat(3, 5))]

\* Lines 69-72: S_broken, both entries of the strongest edge times 0.6
SBroken(S, u, v) ==
    [S EXCEPT ![u][v] = RMul(@, Rat(3, 5)), ![v][u] = RMul(@, Rat(3, 5))]

\* Lines 81-82: R_spiked
RSpiked(R, t) == [R EXCEPT ![t] = RAdd(@, Rat(3, 5))]

\* X[mask] with mask false at t only
Masked(X, t) == [i \in 1..(Len(X) - 1) |-> IF i < t THEN X[i] ELSE X[i + 1]]

\* Mutant of MaskedMat: the leading block S[:n-1, :n-1] whatever t is
TruncatedMat(S, t) ==
    [i \in 1..(Rows(S) - 1) |-> [j \in 1..(Cols(S) - 1) |-> S[i][j]]]

\* S[mask][:, mask]
MaskedMat(S, t) ==
    [i \in 1..(Rows(S) - 1) |-> [j \in 1..(Cols(S) - 1) |->
        S[IF i < t THEN i ELSE i + 1][IF j < t THEN j ELSE j + 1]]]

\* The entry of results for one scenario
Scenario(base_margin, res) ==
    [Margin_Drop |-> RSub(base_margin, res.Margin), New_Margin |-> res.Margin]

\* ------------------------------------------------------------------------
\* SpecWorst: one call of run_worst_case_scenarios on a 4-node team
\* ------------------------------------------------------------------------
FixtureNodes == 4

WorstL == {Zero, One}
WorstR == {Zero, Rat(2, 5)}
WorstS == {Zero, One}

WorstInputs ==
    [L : [1..FixtureNodes -> WorstL], V : {[i \in 1..FixtureNodes |-> One]},
     R : [1..FixtureNodes -> WorstR], S : SymMats(FixtureNodes, WorstS, Half)]

InitWorst ==
    /\ pc = "start"
    /\ inp \in WorstInputs
    /\ suggestions = <<>>
    /\ k = 1
    /\ valid_moves = <<>>
    /\ current_spend = Zero
    /\ out = NoOut

\* Lines 50-66: base metrics, the top node, the strongest edge
WCIdentify ==
    /\ pc = "start"
    /\ pc' = "edge_break"
    /\ LET base == analyze_team_state(inp.L, inp.V, inp.R, inp.S, KAPPA, EPS)
       IN  out' = [kind |-> "worst", base |-> base,
                   top_node_idx |-> ArgMax(base.G),
                   strongest_edge |->
                       StrongestEdge(Len(inp.L), base.G, inp.S, KAPPA),
                   results |-> <<>>]
    /\ UNCHANGED <<inp, suggestions, k, valid_moves, current_spend>>

\* Lines 68-78: scenario A
WCEdgeBreak ==
    /\ pc = "edge_break"
    /\ pc' = "r_spike"
    /\ LET S_broken == SBroken(inp.S, out.strongest_edge[1], out.strongest_edge[2])
           res_a == analyze_team_state(inp.L, inp.V, inp.R, S_broken, KAPPA, EPS)
       IN  out' = [kind |-> "worstA", base |-> out.base,
                   top_node_idx |-> out.top_node_idx,
                   strongest_edge |-> out.strongest_edge,
                   S_broken |-> S_broken,
                   Edge_Break |-> Scenario(out.base.Margin, res_a)]
    /\ UNCHANGED <<inp, suggestions, k, valid_moves, current_spend>>

\* Lines 80-88: scenario B
WCRSpike ==
    /\ pc = "r_spike"
    /\ pc' = "node_exit"
    /\ LET res_b == analyze_team_state(inp.L, inp.V,
                        RSpiked(inp.R, out.top_node_idx), inp.S, KAPPA, EPS)
       IN  out' = [kind |-> "worstB", base |-> out.base,
                   top_node_idx |-> out.top_node_idx,
                   strongest_edge |-> out.strongest_edge,
                   S_broken |-> out.S_broken,
                   Edge_Break |-> out.Edge_Break,
                   R_Spike |-> Scenario(out.base.Margin, res_b)]
    /\ UNCHANGED <<inp, suggestions, k, valid_moves, current_spend>>

\* Lines 90-107: scenario C and the return
WCNodeExit ==
    /\ pc = "node_exit"
    /\ pc' = "done"
    /\ LET t == out.top_node_idx
           S_rem == MaskedMat(inp.S, t)
           res_c == analyze_team_state(Masked(inp.L, t), Masked(inp.V, t),
                                       Masked(inp.R, t), S_rem, KAPPA, EPS)
       IN  out' = [kind |-> "worstC", base |-> out.base,
                   top_node_idx |-> out.top_node_idx,
                   strongest_edge |-> out.strongest_edge,
                   S_broken |-> out.S_broken,
                   Edge_Break |-> out.Edge_Break,
                   R_Spike |-> out.R_Spike,
                   S_rem |-> S_rem,
                   Node_Exit |-> Scenario(out.base.Margin, res_c)]
    /\ UNCHANGED <<inp, suggestions, k, valid_moves, current_spend>>

NextWorst == WCIdentify \/ WCEdgeBreak \/ WCRSpike \/ WCNodeExit

SpecWorst == InitWorst /\ [][NextWorst]_vars

\* C9 as stated: on a 4-node team with L, V, R >= 0 and S in [0, 1] the
\* Node_Exit scenario never yields a margin above the base margin.
NodeExitNeverImproves ==
    pc = "done" =>
        /\ RLe(out.Node_Exit.New_Margin, out.base.Margin)
        /\ RLe(Zero, out.Node_Exit.Margin_Drop)

\* What node t adds to the Margin: the binding terms less the misalignment
\* of the pairs it belongs to, less its own R
NodeNet(t) ==
    LET G == out.base.G
        n == Len(inp.L)
        term(i, j) == RSub(RMul(RMul(RMul(KAPPA, G[i]), G[j]), inp.S[i][j]),
                           RSub(One, inp.S[i][j]))
    IN  RSub(RSum([j \in 1..n |->
                     IF j < t THEN term(j, t)
                     ELSE IF j > t THEN term(t, j) ELSE Zero], n),
             inp.R[t])

IsTopNode(t) ==
    /\ \A j \in 1..Len(inp.L) : RLe(out.base.G[j], out.base.G[t])
    /\ \A j \in 1..(t - 1) : out.base.G[j] # out.base.G[t]

\* C9 amended: on a 4-node team with L, V, R >= 0 and S in [0, 1] the
\* Node_Exit margin is at most the base margin exactly when the interactions
\* of the removed highest-gravity node are net-positive or zero: its binding
\* terms are at least its R plus the misalignment of its pairs.
NodeExitNetPositive ==
    pc = "done" =>
        \A t \in 1..Len(inp.L) : IsTopNode(t) =>
            /\ RLe(Zero, NodeNet(t)) <=>
                  RLe(out.Node_Exit.New_Margin, out.base.Margin)
            /\ RLe(Zero, NodeNet(t)) <=> RLe(Zero, out.Node_Exit.Margin_Drop)

\* The highest-gravity node, not the first of the team, was net-positive
\* and its exit lowered the margin.
NodeExitWitness ==
    /\ pc = "done"
    /\ out.top_node_idx > 1
    /\ RLt(Zero, NodeNet(out.top_node_idx))
    /\ RLt(out.Node_Exit.New_Margin, out.base.Margin)

\* ------------------------------------------------------------------------
\* SpecStress: one call of print_stress_report, the Monte Carlo simulation
\* and then the worst-case scenarios on the same snapshot
\* ------------------------------------------------------------------------
StressS == {Half, One}

\* The base matrices: the symmetric ones, and np.ones((n, n)) * 0.5 with
\* the upper triangle alone set to u, as the fixture sets it
StressMats(n) ==
    SymMats(n, StressS, Half)
    \cup {[i \in 1..n |-> [j \in 1..n |-> IF i < j THEN u ELSE Half]]
           : u \in StressS}

\* Teams of growing L
StressInputs ==
    UNION {[L : {[i \in 1..n |-> Rat(i, 1)]}, V : {[i \in 1..n |-> One]},
            R : {[i \in 1..n |-> Rat(2, 5)]}, S : StressMats(n),
            iterations : {1, 2}, noise_scale : {Rat(1, 10)}]
           : n \in 2..MaxDim}

InitStress ==
    /\ pc = "monte_carlo"
    /\ inp \in StressInputs
    /\ suggestions = <<>>
    /\ k = 1
    /\ valid_moves = <<>>
    /\ current_spend = Zero
    /\ out = [kind |-> "stress", margins |-> <<>>, unstable_count |-> 0,
              S_noise |-> <<>>]

\* stress_test.py lines 21-37: one trial; S_noise is the matrix the trial
\* hands to analyze_team_state
StressTrial ==
    /\ pc = "monte_carlo"
    /\ Len(out.margins) < inp.iterations
    /\ \E noise \in NoiseDraws(Len(inp.L), inp.noise_scale) :
          LET S_noise == Symmetrized(ClippedNoise(inp.S, noise.S))
              metrics == Trial(inp.L, inp.V, inp.R, inp.S, noise)
          IN  out' = [out EXCEPT
                        !.margins = Append(@, metrics.Margin),
                        !.unstable_count =
                            IF ~metrics.Is_Stable THEN @ + 1 ELSE @,
                        !.S_noise = S_noise]
    /\ UNCHANGED <<pc, inp, suggestions, k, valid_moves, current_spend>>

\* stress_test.py lines 50-107: the three scenarios of one call
run_worst_case_scenarios(L, V, R, S, kappa, eps) ==
    LET base == analyze_team_state(L, V, R, S, kappa, eps)
        t == ArgMax(base.G)
        e == StrongestEdge(Len(L), base.G, S, kappa)
        S_broken == SBroken(S, e[1], e[2])
        S_rem == MaskedMat(S, t)
        res_a == analyze_team_state(L, V, R, S_broken, kappa, eps)
        res_b == analyze_team_state(L, V, RSpiked(R, t), S, kappa, eps)
        res_c == analyze_team_state(Masked(L, t), Masked(V, t), Masked(R, t),
                                    S_rem, kappa, eps)
    IN  [top_node_idx |-> t, strongest_edge |-> e,
         S_broken |-> S_broken, S_rem |-> S_rem,
         Edge_Break |-> Scenario(base.Margin, res_a),
         R_Spike |-> Scenario(base.Margin, res_b),
         Node_Exit |-> Scenario(base.Margin, res_c),
         base_margin |-> base.Margin]

\* stress_test.py lines 118-131: the simulation has returned its report,
\* the worst-case scenarios run on the same L, V, R, S
StressWorstCase ==
    /\ pc = "monte_carlo"
    /\ Len(out.margins) = inp.iterations
    /\ pc' = "done"
    /\ out' = [kind |-> "stressdone", margins |-> out.margins,
               unstable_count |-> out.unstable_count,
               S_noise |-> out.S_noise,
               mc_res |-> MonteCarloReport(out.margins, out.unstable_count,
                                           inp.iterations),
               wc_res |-> run_worst_case_scenarios(inp.L, inp.V, inp.R,
                                                   inp.S, KAPPA, EPS)]
    /\ UNCHANGED <<inp, suggestions, k, valid_moves, current_spend>>

NextStress == StressTrial \/ StressWorstCase

SpecStress == InitStress /\ [][NextStress]_vars

\* C11: every perturbed compatibility matrix handed to the evaluator is
\* symmetric: the S_noise of every Monte Carlo trial whatever the base S,
\* and, when the base S is symmetric, the Edge_Break matrix S_broken and
\* the Node_Exit matrix S_rem.
PerturbedSymmetric ==
    /\ Len(out.margins) > 0 =>
          /\ Rows(out.S_noise) = Rows(inp.S)
          /\ IsSymmetric(out.S_noise)
    /\ (pc = "done" /\ IsSymmetric(inp.S)) =>
          /\ Rows(out.wc_res.S_broken) = Rows(inp.S)
          /\ IsSymmetric(out.wc_res.S_broken)
          /\ Rows(out.wc_res.S_rem) = Rows(inp.S) - 1
          /\ IsSymmetric(out.wc_res.S_rem)

\* A report is complete for a symmetric base: the noise of the last trial
\* changed S, the edge break changed S, and the node exit left a matrix of
\* two nodes or more.
PerturbedSymmetricWitness ==
    /\ pc = "done"
    /\ IsSymmetric(inp.S)
    /\ out.S_noise # inp.S
    /\ out.wc_res.S_broken # inp.S
    /\ Rows(out.wc_res.S_rem) >= 2

\* The trial of an asymmetric base: the matrix handed on differs from it.
AsymmetricBaseTrial ==
    /\ Len(out.margins) > 0
    /\ ~IsSymmetric(inp.S)
    /\ out.S_noise # inp.S

\* ------------------------------------------------------------------------
\* app.py: the dashboard evaluator analyze_team
\* ------------------------------------------------------------------------
CONST_KAPPA == Rat(1, 50)
CONST_EPSILON == Rat(1, 10)

\* app.py lines 14-16
compute_gravity(L, V, R) ==
    RDiv(RMul(RMul(L, L), V), RAdd(R, CONST_EPSILON))

\* app.py lines 35-41: the loop over the rows of df_edges from row m on; a
\* row whose source or target is not a node is passed over
RECURSIVE EdgeTotals(_, _, _, _, _)
EdgeTotals(edges, m, G_map, K_total, misalignment) ==
    IF m > Len(edges) THEN [K |-> K_total, misalignment |-> misalignment]
    ELSE LET row == edges[m]
             known == row.source \in DOMAIN G_map /\ row.target \in DOMAIN G_map
             kk == IF known
                   THEN RMul(RMul(RMul(CONST_KAPPA, G_map[row.source]),
                                  G_map[row.target]), row.S)
                   ELSE Zero
             K1 == RAdd(K_total, kk)
             m1 == IF known THEN RAdd(misalignment, RSub(One, row.S))
                   ELSE misalignment
         IN  EdgeTotals(edges, m + 1, G_map, K1, m1)

\* Mutant of DashStable: a margin of zero counted as stable
DashStableNonStrict(margin) == RLe(Zero, margin)

\* app.py line 56
DashStable(margin) == RLt(Zero, margin)

\* app.py lines 18-57; nodes holds the columns L, V, R of df_nodes, the
\* names being the positions 1..n
analyze_team(nodes, edges) ==
    LET n == Len(nodes.L)
        G_map == [i \in 1..n |->
                     compute_gravity(nodes.L[i], nodes.V[i], nodes.R[i])]
        tot == EdgeTotals(edges, 1, G_map, Zero, Zero)
        R_total == RSum(nodes.R, n)
        D_total == RAdd(R_total, tot.misalignment)
        margin == RSub(tot.K, D_total)
    IN  [G_map |-> G_map, K |-> tot.K, D |-> D_total, Margin |-> margin,
         Is_Stable |-> DashStable(margin)]

\* ------------------------------------------------------------------------
\* SpecDash: one snapshot evaluated by analyze_team_state and, as node and
\* edge tables, by analyze_team
\* ------------------------------------------------------------------------
MaxEdges == 2

DashS == {Half, One}

\* Rows of df_edges: pairs of names, one name more than there are nodes
DashEdges(n) ==
    [source : 1..(n + 1), target : 1..(n + 1), S : DashS]

DashEdgeLists(n) ==
    UNION {[1..m -> {e \in DashEdges(n) : e.source < e.target}]
           : m \in 0..MaxEdges}

DashInputs ==
    UNION {[L : {[i \in 1..n |-> l] : l \in {Zero, One}},
            V : {[i \in 1..n |-> IF i = 1 THEN Half ELSE One]},
            R : {[i \in 1..n |-> r] : r \in {Zero, Rat(2, 5)}},
            S : SymMats(n, DashS, Half),
            edges : DashEdgeLists(n)]
           : n \in 1..MaxNodes}

InitDash ==
    /\ pc = "start"
    /\ inp \in DashInputs
    /\ suggestions = <<>>
    /\ k = 1
    /\ valid_moves = <<>>
    /\ current_spend = Zero
    /\ out = NoOut

\* team_optimizer.py lines 20-47 on the arrays of the snapshot
DashAnalyzeState ==
    /\ pc = "start"
    /\ pc' = "dashboard"
    /\ out' = [kind |-> "state",
               metrics |-> analyze_team_state(inp.L, inp.V, inp.R, inp.S,
                                              KAPPA, EPS)]
    /\ UNCHANGED <<inp, suggestions, k, valid_moves, current_spend>>

\* app.py lines 18-57 on the tables of the snapshot
DashAnalyzeTeam ==
    /\ pc = "dashboard"
    /\ pc' = "done"
    /\ out' = [kind |-> "both", metrics |-> out.metrics,
               dash |-> analyze_team([L |-> inp.L, V |-> inp.V, R |-> inp.R],
                                     inp.edges)]
    /\ UNCHANGED <<inp, suggestions, k, valid_moves, current_spend>>

NextDash == DashAnalyzeState \/ DashAnalyzeTeam

SpecDash == InitDash /\ [][NextDash]_vars

\* C12: the stability flag is strict: analyze_team_state returns Is_Stable
\* true exactly when Margin = K_team - D_team is above 0, a snapshot with
\* K_team = D_team is reported unstable, and analyze_team applies the same
\* rule to its own K, D and Margin.
StrictStability ==
    /\ pc # "start" =>
          /\ out.metrics.err = "none"
          /\ out.metrics.Margin = RSub(out.metrics.K_team, out.metrics.D_team)
          /\ out.metrics.Is_Stable <=> RLt(Zero, out.metrics.Margin)
          /\ out.metrics.K_team = out.metrics.D_team => ~out.metrics.Is_Stable
    /\ pc = "done" =>
          /\ out.dash.Margin = RSub(out.dash.K, out.dash.D)
          /\ out.dash.Is_Stable <=> RLt(Zero, out.dash.Margin)
          /\ out.dash.K = out.dash.D => ~out.dash.Is_Stable

\* Both evaluators met a tie of positive binding energy and friction, and
\* both reported it unstable.
StrictStabilityWitness ==
    /\ pc = "done"
    /\ RLt(Zero, out.metrics.K_team)
    /\ out.metrics.K_team = out.metrics.D_team
    /\ ~out.metrics.Is_Stable
    /\ RLt(Zero, out.dash.K)
    /\ out.dash.K = out.dash.D
    /\ ~out.dash.Is_Stable

\* Both evaluators reported a snapshot stable.
BothStable ==
    /\ pc = "done"
    /\ out.metrics.Is_Stable
    /\ out.dash.Is_Stable

====
